---- MODULE Spec2Model ----
(***************************************************************************)
(* Model of the expense form of opencollective-frontend                    *)
(* (src/components/expenses/ExpenseForm.js): the validator, the submission *)
(* sanitizer and the two-step wizard with its reactive effects.            *)
(*                                                                         *)
(* JavaScript values are encoded as records so that values of different    *)
(* JavaScript types can be compared: a primitive is a record with a single *)
(* tag field, an object is a record of its own keys, and a key that is not *)
(* in the DOMAIN of an object is a key the object does not have.           *)
(***************************************************************************)
EXTENDS Integers, Sequences, FiniteSets, TLC

\* ------------------------------------------------------------------------
\* JavaScript values
\* ------------------------------------------------------------------------

Undefined == [undefined |-> TRUE]
Null == [null |-> TRUE]
Str(s) == [string |-> s]
Num(n) == [number |-> n]
Bool(b) == [boolean |-> b]
Arr(s) == [array |-> s]
EmptyObject == [k \in {} |-> Undefined]
TypeError == [exception |-> "TypeError"]

PrimitiveTags == {"undefined", "null", "string", "number", "boolean", "array", "exception"}

IsObject(v) == (DOMAIN v) \cap PrimitiveTags = {}
IsArray(v) == DOMAIN v = {"array"}
IsNullish(v) == v \in {Undefined, Null}
IsString(v) == DOMAIN v = {"string"}

\* JavaScript truthiness: undefined, null, '', 0 and false are falsy.
Truthy(v) == v \notin {Undefined, Null, Str(""), Num(0), Bool(FALSE)}

\* o?.k : undefined when o is nullish or has no key k.
Get(o, k) == IF IsObject(o) /\ k \in DOMAIN o THEN o[k] ELSE Undefined

\* { ...o, [k]: v }
With(o, k, v) == [x \in (DOMAIN o) \cup {k} |-> IF x = k THEN v ELSE o[x]]

\* { ...a, ...b } : the keys of b win.
Spread(a, b) == [x \in (DOMAIN a) \cup (DOMAIN b) |-> IF x \in DOMAIN b THEN b[x] ELSE a[x]]

\* lodash get(obj, path) for a path given as a sequence of keys.
RECURSIVE GetPath(_, _)
GetPath(o, path) ==
  IF path = <<>> THEN o
  ELSE GetPath(Get(o, Head(path)), Tail(path))

\* lodash set(obj, path, value): intermediate objects are created when the
\* key is missing or does not hold an object.
RECURSIVE SetPath(_, _, _)
SetPath(o, path, v) ==
  IF Len(path) = 1 THEN With(o, Head(path), v)
  ELSE LET child == Get(o, Head(path))
           base == IF IsObject(child) THEN child ELSE EmptyObject
       IN With(o, Head(path), SetPath(base, Tail(path), v))

\* lodash pick(obj, keys): the keys of obj among `keys`; {} for a nullish obj.
pick(o, keys) ==
  IF IsObject(o) THEN [k \in (DOMAIN o) \cap keys |-> o[k]] ELSE EmptyObject

\* lodash omit(obj, keys) for top-level keys.
omit(o, keys) ==
  IF IsObject(o) THEN [k \in (DOMAIN o) \ keys |-> o[k]] ELSE EmptyObject

\* lodash omit(obj, path) for one deep path.
RECURSIVE OmitPath(_, _)
OmitPath(o, path) ==
  IF ~IsObject(o) \/ Head(path) \notin DOMAIN o THEN o
  ELSE IF Len(path) = 1 THEN omit(o, {Head(path)})
  ELSE With(o, Head(path), OmitPath(o[Head(path)], Tail(path)))

\* lodash isEmpty: objects without keys, empty arrays, nullish values.
isEmpty(v) ==
  IF IsArray(v) THEN v.array = <<>>
  ELSE IF IsObject(v) THEN DOMAIN v = {}
  ELSE IF IsString(v) THEN v.string = ""
  ELSE TRUE

\* array.length
Length(a) == Len(a.array)

\* ------------------------------------------------------------------------
\* Constants of the repository
\* ------------------------------------------------------------------------

RECEIPT == Str("RECEIPT")
INVOICE == Str("INVOICE")
FUNDING_REQUEST == Str("FUNDING_REQUEST")
BANK_ACCOUNT == Str("BANK_ACCOUNT")
PAYPAL == Str("PAYPAL")
PAYOUT_OTHER == Str("OTHER")
STEPS == [PAYEE |-> "PAYEE", EXPENSE |-> "EXPENSE"]

\* createError(ERROR.FORM_FIELD_REQUIRED)
RequiredError == [type |-> Str("FORM_FIELD_REQUIRED")]

\* ------------------------------------------------------------------------
\* Collaborators of the validator (lib/form-utils, ExpenseItemForm,
\* PayoutMethodForm)
\* ------------------------------------------------------------------------

\* requireFields(obj, fields): an error at every path of `fields` whose value
\* in obj is falsy.  `fields` is a sequence of paths, each a sequence of keys.
RECURSIVE requireFieldsFrom(_, _, _)
requireFieldsFrom(obj, fields, errors) ==
  IF fields = <<>> THEN errors
  ELSE LET field == Head(fields)
           next == IF ~Truthy(GetPath(obj, field))
                     THEN SetPath(errors, field, RequiredError)
                     ELSE errors
       IN requireFieldsFrom(obj, Tail(fields), next)

requireFields(obj, fields) == requireFieldsFrom(obj, fields, EmptyObject)

\* The second check of validateExpenseItem: the attachment of a receipt, looked
\* at only when the required fields are there.
attachmentRequired(expense, item, errors) ==
  IF ~isEmpty(errors) THEN errors
  ELSE IF Get(expense, "type") = RECEIPT /\ ~Truthy(Get(item, "url"))
    THEN With(errors, "url", RequiredError)
  ELSE errors

\* validateExpenseItem(expense, item): the required fields of an item, and
\* the attachment of a receipt.
validateExpenseItem(expense, item) ==
  attachmentRequired(expense, item,
    requireFields(item, << <<"description">>, <<"incurredAt">>, <<"amount">> >>))

\* validatePayoutMethod(payoutMethod): the type is required, a PayPal method
\* needs data.email and a bank account needs data.currency.
validatePayoutMethod(payoutMethod) ==
  IF ~Truthy(payoutMethod) \/ ~Truthy(Get(payoutMethod, "type"))
    THEN SetPath(EmptyObject, <<"type">>, RequiredError)
  ELSE IF Get(payoutMethod, "type") = PAYPAL /\ ~Truthy(GetPath(payoutMethod, <<"data", "email">>))
    THEN SetPath(EmptyObject, <<"data", "email">>, RequiredError)
  ELSE IF Get(payoutMethod, "type") = BANK_ACCOUNT /\ ~Truthy(GetPath(payoutMethod, <<"data", "currency">>))
    THEN SetPath(EmptyObject, <<"data", "currency">>, RequiredError)
  ELSE EmptyObject

\* ------------------------------------------------------------------------
\* ExpenseForm.js: prepareExpenseForSubmit and validate
\* ------------------------------------------------------------------------

\* The keys picked for one item of the payload.
itemKeys(item, isInvoice, isFundingRequest) ==
  (IF Truthy(Get(item, "__isNew")) THEN {} ELSE {"id"})
    \cup (IF isInvoice \/ isFundingRequest THEN {} ELSE {"url"})
    \cup {"description", "incurredAt", "amount"}

\* A payee id of the wrong kind: the key names exchanged.
payeeIdField_swapped(payeeValue) ==
  IF IsString(Get(payeeValue, "id")) THEN "legacyId" ELSE "id"

\* typeof expenseData.payee?.id === 'string' ? 'id' : 'legacyId'
payeeIdField(payeeValue) ==
  IF IsString(Get(payeeValue, "id")) THEN "id" ELSE "legacyId"

\* The inline payee keeps its id.
payloadPayee_keepsId(payeeValue, inline) ==
  IF inline
    THEN pick(payeeValue, {"id", "name", "email", "organization", "newsletterOptIn"})
    ELSE With(EmptyObject, payeeIdField(payeeValue), Get(payeeValue, "id"))

\* const payee = expenseData.payee?.isNewUser || expenseData.payee?.isInvite ? pick(...) : {...}
payloadPayee(payeeValue, inline) ==
  IF inline
    THEN pick(payeeValue, {"name", "email", "organization", "newsletterOptIn"})
    ELSE With(EmptyObject, payeeIdField(payeeValue), Get(payeeValue, "id"))

\* The location of the payee is sent for every type.
payloadPayeeLocation_always(expenseData, isInvoice) ==
  pick(Get(expenseData, "payeeLocation"), {"address", "country"})

\* payeeLocation: isInvoice ? pick(expenseData.payeeLocation, ['address', 'country']) : null
payloadPayeeLocation(expenseData, isInvoice) ==
  IF isInvoice
    THEN pick(Get(expenseData, "payeeLocation"), {"address", "country"})
    ELSE Null

\* prepareExpenseForSubmit(expenseData): the payload, or TypeError where the
\* code reads a property of undefined or null (expenseData.payee.id,
\* expenseData.items.map).
prepareExpenseForSubmit(expenseData) ==
  LET payeeValue == Get(expenseData, "payee")
      isInvoice == Get(expenseData, "type") = INVOICE
      isFundingRequest == Get(expenseData, "type") = FUNDING_REQUEST
      inline == Truthy(Get(payeeValue, "isNewUser")) \/ Truthy(Get(payeeValue, "isInvite"))
      payee == payloadPayee(payeeValue, inline)
      attachedFiles == Get(expenseData, "attachedFiles")
      items == Get(expenseData, "items")
      item(i) == pick(i, itemKeys(i, isInvoice, isFundingRequest))
      file(f) == pick(f, {"id", "url"})
  IN IF (~inline /\ IsNullish(payeeValue)) \/ ~IsArray(items) THEN TypeError
     ELSE Spread(
            pick(expenseData, {"id", "description", "longDescription", "type",
                               "privateMessage", "invoiceInfo", "tags"}),
            [payee |-> payee,
             payoutMethod |-> pick(Get(expenseData, "payoutMethod"),
                                   {"id", "name", "data", "isSaved", "type"}),
             payeeLocation |-> payloadPayeeLocation(expenseData, isInvoice),
             attachedFiles |-> IF isInvoice
                                 THEN (IF IsArray(attachedFiles)
                                         THEN Arr([i \in DOMAIN attachedFiles.array |->
                                                     file(attachedFiles.array[i])])
                                         ELSE Undefined)
                                 ELSE Arr(<<>>),
             items |-> Arr([i \in DOMAIN items.array |-> item(items.array[i])])])

\* The required fields of the payee modes of validate, and of an invoice.
invitedWithIdFields == << <<"description">>, <<"payee">>, <<"payee", "id">> >>

\* The e-mail of the invited payee is not required.
invitedWithoutIdFields_noEmail == << <<"description">>, <<"payee">>, <<"payee", "name">> >>

invitedWithoutIdFields == << <<"description">>, <<"payee">>, <<"payee", "name">>, <<"payee", "email">> >>

\* The currency is not required.
registeredFields_noCurrency == << <<"description">>, <<"payee">>, <<"payoutMethod">> >>

registeredFields == << <<"description">>, <<"payee">>, <<"payoutMethod">>, <<"currency">> >>

\* The country of the payee is not required.
locationFields_noCountry == << <<"payeeLocation", "address">> >>

locationFields == << <<"payeeLocation", "country">>, <<"payeeLocation", "address">> >>

\* const itemsErrors = expense.items.map(item => validateExpenseItem(expense, item))
itemsErrorsOf(expense) ==
  Arr([i \in DOMAIN expense.items.array |-> validateExpenseItem(expense, expense.items.array[i])])

\* errors.items is set without looking at hasErrors.
validateItems_always(expense, errors, itemsErrors) ==
  IF Length(expense.items) > 0 THEN With(errors, "items", itemsErrors) ELSE errors

\* if (expense.items.length > 0) { ... if (hasErrors) errors.items = itemsErrors }
validateItems(expense, errors, itemsErrors) ==
  IF /\ Length(expense.items) > 0
     /\ \E i \in DOMAIN itemsErrors.array : ~isEmpty(itemsErrors.array[i])
    THEN With(errors, "items", itemsErrors)
    ELSE errors

\* if (expense.payoutMethod) { ... if (!isEmpty(payoutMethodErrors)) errors.payoutMethod = ... }
validatePayoutMethodOf(expense, errors, payoutMethodErrors) ==
  IF Truthy(Get(expense, "payoutMethod")) /\ ~isEmpty(payoutMethodErrors)
    THEN With(errors, "payoutMethod", payoutMethodErrors)
    ELSE errors

\* if (expense.type === expenseTypes.INVOICE) Object.assign(errors, requireFields(...))
validateLocation(expense, errors) ==
  IF Get(expense, "type") = INVOICE
    THEN Spread(errors, requireFields(expense, locationFields))
    ELSE errors

\* validate(expense): the error map, or TypeError where expense.items is not
\* an array (expense.items.length).
validate(expense) ==
  IF Truthy(Get(Get(expense, "payee"), "isInvite"))
    THEN IF Truthy(Get(expense.payee, "id"))
           THEN requireFields(expense, invitedWithIdFields)
           ELSE requireFields(expense, invitedWithoutIdFields)
  ELSE IF ~IsArray(Get(expense, "items")) THEN TypeError
  ELSE
    validateLocation(expense,
      validatePayoutMethodOf(expense,
        validateItems(expense, requireFields(expense, registeredFields), itemsErrorsOf(expense)),
        validatePayoutMethod(Get(expense, "payoutMethod"))))

\* ------------------------------------------------------------------------
\* State
\* ------------------------------------------------------------------------

VARIABLES
  props,            \* props of ExpenseForm that do not change: expense,
                    \* validateOnChange, formPersister (given or not),
                    \* shouldLoadValuesFromPersister, hostTransferwise
  loggedInAccount,  \* prop: null until the user logs in
  payoutProfiles,   \* prop: the payout profiles of the logged-in user
  initialValues,    \* Formik: initialValues
  values,           \* Formik: values
  errors,           \* Formik: errors
  step,             \* useState: step
  hasValidate,      \* useState: hasValidate
  rendered,         \* the render whose effects have run: its effect dependencies
  payeeFresh,       \* values.payee is a new object since that render
  persisted,        \* what formPersister.loadValues() returns
  onSubmitCall,     \* argument of the onSubmit call made by the last step
  persisterCalls,   \* the calls of the last step: loadValues, setValues, saveValues
  event,            \* the last step taken; "MountEffects" for the effects of mounting
  typeChange,       \* the last change of values.type since the last user action
  expense,          \* input record of the validator and of the sanitizer
  call,             \* which function was applied to `expense`
  result,           \* its result
  result2,          \* the result of applying the sanitizer to `result`
  popUpProps,       \* props of RecurringContributionsPopUp: contribution, status, account
  menuState,        \* useState: menuState
  inFlight,         \* cancel mutations sent and not yet settled
  mutations,        \* the variables of every submitCancellation call, in order
  toasts,           \* the type of every addToast call, in order
  closeEdits,       \* how many times onCloseEdit was called
  popUpEvent,       \* the last step taken in the pop-up
  collectiveProps,  \* props of CreateCollectiveForm: github
  collectiveValues, \* Formik: values (name, slug, description)
  collectiveTouched,\* Formik: touched
  collectiveErrors, \* Formik: errors
  focus,            \* the field that has the focus, or "none"
  slugTyped,        \* the user has typed in the slug field
  collectiveEvent,  \* the last step taken in the form
  collectiveInput,  \* input record of the create-collective validator
  collectiveResult  \* its result, undefined before it is applied

formVars == <<props, loggedInAccount, payoutProfiles, initialValues, values, errors, step,
              hasValidate, rendered, payeeFresh, persisted, onSubmitCall, persisterCalls,
              event, typeChange>>
pureVars == <<expense, call, result, result2>>
popUpVars == <<popUpProps, menuState, inFlight, mutations, toasts, closeEdits, popUpEvent>>
collectiveVars == <<collectiveProps, collectiveValues, collectiveTouched, collectiveErrors,
                    focus, slugTyped, collectiveEvent, collectiveInput, collectiveResult>>
vars == <<formVars, pureVars, popUpVars, collectiveVars>>

\* ------------------------------------------------------------------------
\* Bounds and sample data
\* ------------------------------------------------------------------------

MaxItems == 1

ProfileA == [id |-> Str("p1"), name |-> Str("Ann"),
             location |-> [country |-> Str("BE"), address |-> Str("2 av")]]
ProfileB == [id |-> Str("p2"), name |-> Str("Bob")]
InvitedPayee == [isInvite |-> Bool(TRUE), name |-> Str("Guest"), email |-> Str("g@x.org")]
Account == [id |-> Str("u1")]
PayPalMethod == [id |-> Str("pm1"), type |-> PAYPAL, data |-> [email |-> Str("a@x.org")]]
BankAccountMethod == [type |-> BANK_ACCOUNT, data |-> EmptyObject]
DefaultLocation == [address |-> Str(""), country |-> Null]
FullLocation == [address |-> Str("2 av"), country |-> Str("BE")]
NewItem == [__isNew |-> Bool(TRUE), id |-> Str("tmp")]
CompleteItem == [__isNew |-> Bool(TRUE), id |-> Str("tmp"), description |-> Str("x"),
                 incurredAt |-> Str("2021-01-01"), amount |-> Num(5), url |-> Str("http://x")]
Collective == [currency |-> Str("USD")]

\* ------------------------------------------------------------------------
\* ExpenseForm.js: the form
\* ------------------------------------------------------------------------

getDefaultExpense(collective) ==
  [description |-> Str(""), longDescription |-> Str(""), items |-> Arr(<<>>),
   attachedFiles |-> Arr(<<>>), payee |-> Null, payoutMethod |-> Undefined,
   privateMessage |-> Str(""), invoiceInfo |-> Str(""), currency |-> collective.currency,
   payeeLocation |-> DefaultLocation]

\* const isDraft = expense?.status === expenseStatus.DRAFT
IsDraftExpense(e) == Get(e, "status") = Str("DRAFT")
isDraft == IsDraftExpense(props.expense)

\* const initialValues = { ...getDefaultExpense(collective), ...expense }, with
\* the items and attached files of the draft for a draft.
InitialValuesOf(e) ==
  LET merged == Spread(getDefaultExpense(Collective), IF IsObject(e) THEN e ELSE EmptyObject)
  IN IF IsDraftExpense(e)
       THEN Spread(merged, [items |-> GetPath(e, <<"draft", "items">>),
                            attachedFiles |-> GetPath(e, <<"draft", "attachedFiles">>)])
       ELSE merged

\* a || b
Or(a, b) == IF Truthy(a) THEN a ELSE b

\* The keys of flattenObjectDeep(obj): the keys, at any depth, that hold a
\* value that is not an object.
RECURSIVE flattenObjectDeepKeys(_)
flattenObjectDeepKeys(obj) ==
  IF IsArray(obj)
    THEN UNION {flattenObjectDeepKeys(obj.array[i]) : i \in DOMAIN obj.array}
    ELSE UNION {IF IsObject(obj[k]) \/ IsArray(obj[k]) THEN flattenObjectDeepKeys(obj[k]) ELSE {k}
                : k \in DOMAIN obj}

hasBaseFormFieldsCompleted(v) == Truthy(Get(v, "type")) /\ Truthy(Get(v, "description"))

stepOneCompleted(v, e) ==
  /\ Truthy(Get(v, "payoutMethod"))
  /\ flattenObjectDeepKeys(OmitPath(e, <<"payoutMethod", "data", "currency">>)) = {}
  /\ IF Get(v, "type") = RECEIPT THEN TRUE
     ELSE /\ Truthy(GetPath(v, <<"payeeLocation", "country">>))
          /\ Truthy(GetPath(v, <<"payeeLocation", "address">>))

\* The items are not looked at.
stepTwoCompleted_noItems(v, e) ==
  IF Truthy(GetPath(v, <<"payee", "isInvite">>)) THEN TRUE
  ELSE stepOneCompleted(v, e) /\ hasBaseFormFieldsCompleted(v)

stepTwoCompleted(v, e) ==
  IF Truthy(GetPath(v, <<"payee", "isInvite">>)) THEN TRUE
  ELSE stepOneCompleted(v, e) /\ hasBaseFormFieldsCompleted(v) /\ Length(Get(v, "items")) > 0

\* Formik: dirty and isValid
dirty == values # initialValues
isValid == DOMAIN errors = {}

\* Formik: validate={hasValidate && validate}.  Every setFieldValue, setValues
\* and handleChange validates the new values and replaces the errors; without
\* a validate function there is nothing to report.
FormikValidate(newValues) ==
  IF hasValidate THEN validate(newValues) ELSE EmptyObject

\* The dependencies of the effects as of the current render.
CurrentRender ==
  [mounted |-> TRUE, values |-> values, payoutProfiles |-> payoutProfiles,
   loggedInAccount |-> loggedInAccount]

\* Every effect has run for the current render: the next event can be handled.
Settled == rendered = CurrentRender /\ ~payeeFresh

\* setLocationFromPayee(formik, payee): two formik.setFieldValue calls.
setLocationFromPayee(v, payee) ==
  LET country == Or(GetPath(payee, <<"location", "country">>), Null)
      address == Or(GetPath(payee, <<"location", "address">>), Str(""))
  IN SetPath(SetPath(v, <<"payeeLocation", "country">>, country),
             <<"payeeLocation", "address">>, address)

\* lodash first(array)
first(a) == IF Length(a) > 0 THEN a.array[1] ELSE Undefined

NoTypeChange == [changed |-> FALSE, invited |-> FALSE]

\* Records a change of values.type and whether an invited payee is selected
\* in the values that carry the new type.
TypeChangeOf(oldValues, newValues, previous) ==
  IF Get(oldValues, "type") # Get(newValues, "type")
    THEN [changed |-> TRUE, invited |-> Truthy(GetPath(newValues, <<"payee", "isInvite">>))]
    ELSE previous

\* const isOnBehalf = values.payee?.isInvite
isOnBehalf(v) == Truthy(GetPath(v, <<"payee", "isInvite">>))

\* The default profile is selected only when no payee is selected.
selectsDefaultProfile_ifUndefined(v) ==
  /\ ~isOnBehalf(v) /\ ~Truthy(Get(v, "payee"))
  /\ Truthy(loggedInAccount) /\ ~isEmpty(payoutProfiles)

\* else if (!isOnBehalf && (isDraft || !values.payee) && loggedInAccount
\*          && !isEmpty(payoutProfiles))
selectsDefaultProfile(v) ==
  /\ ~isOnBehalf(v) /\ (isDraft \/ ~Truthy(Get(v, "payee")))
  /\ Truthy(loggedInAccount) /\ ~isEmpty(payoutProfiles)

\* The step is set to EXPENSE for the invited payee of a draft as well.
payeeEffectShowsExpense_drafts(v) == Truthy(GetPath(v, <<"payee", "isInvite">>))

\* The payee effect never sets the step.
payeeEffectShowsExpense_never(v) == FALSE

\* if (!isDraft && values.payee?.isInvite) setStep(STEPS.EXPENSE)
payeeEffectShowsExpense(v) == ~isDraft /\ Truthy(GetPath(v, <<"payee", "isInvite">>))

\* The type effect forgets to clear the invited payee.
typeEffectClearsPayee_never(v) == FALSE

\* if (!isDraft && values.payee?.isInvite) formik.setFieldValue('payee', null)
typeEffectClearsPayee(v) == ~isDraft /\ Truthy(GetPath(v, <<"payee", "isInvite">>))

NoPersisterCalls == [loadValues |-> FALSE, setValues |-> FALSE, saveValues |-> FALSE]

\* The stored values are loaded whether or not the form is dirty.
shouldLoadValues_whenDirty(isDirty) ==
  props.shouldLoadValuesFromPersister /\ props.formPersister

\* if (shouldLoadValuesFromPersister && formPersister && !dirty)
shouldLoadValues(isDirty) ==
  props.shouldLoadValuesFromPersister /\ props.formPersister /\ ~isDirty

\* Only `location` is omitted.
hydratedValues_keepsPrivateInfo(formValues) ==
  omit(IF /\ GetPath(formValues, <<"payoutMethod", "type">>) = BANK_ACCOUNT
          /\ ~props.hostTransferwise
         THEN With(formValues, "payoutMethod", Undefined)
       ELSE formValues,
       {"location"})

\* The argument of setValues: the stored values, with payoutMethod reset if
\* the host is no longer connected to TransferWise, without the deprecated fields
hydratedValues(formValues) ==
  omit(IF /\ GetPath(formValues, <<"payoutMethod", "type">>) = BANK_ACCOUNT
          /\ ~props.hostTransferwise
         THEN With(formValues, "payoutMethod", Undefined)
       ELSE formValues,
       {"location", "privateInfo"})

\* The values are saved whether or not the form is dirty.
shouldSaveValues_always(isDirty) == props.formPersister

\* if (dirty && formPersister)
shouldSaveValues(isDirty) == isDirty /\ props.formPersister

\* The effects of ExpenseFormBody.  React runs, after a render, every effect
\* one of whose dependencies differs from the previous render (all of them
\* after mounting), in the order of their declaration; each reads the values
\* of that render, and the state updates they make are applied together.
RunEffects ==
  /\ ~Settled
  /\ LET V == values
         D == dirty
         m == rendered.mounted
         renderedDirty == rendered.values # initialValues
         \* useEffect(..., [payoutProfiles, loggedInAccount])
         run1 == ~m \/ rendered.payoutProfiles # payoutProfiles
                    \/ rendered.loggedInAccount # loggedInAccount
         draftPayee == GetPath(V, <<"draft", "payee">>)
         fromDraft == run1 /\ Truthy(draftPayee) /\ ~Truthy(loggedInAccount)
         defaultProfile == run1 /\ ~fromDraft /\ selectsDefaultProfile(V)
         f1 == IF fromDraft
                 THEN With(V, "payee", Spread(draftPayee, [isInvite |-> Bool(FALSE),
                                                           isNewUser |-> Bool(TRUE)]))
               ELSE IF defaultProfile THEN With(V, "payee", first(payoutProfiles))
               ELSE V
         \* useEffect(..., [values.payee])
         run2 == ~m \/ Get(rendered.values, "payee") # Get(V, "payee") \/ payeeFresh
         prefill == /\ run2
                    /\ ~Truthy(GetPath(V, <<"payeeLocation", "address">>))
                    /\ Truthy(GetPath(V, <<"payee", "location">>))
         f2 == IF prefill THEN setLocationFromPayee(f1, Get(V, "payee")) ELSE f1
         step2 == IF run2 /\ payeeEffectShowsExpense(V) THEN STEPS.EXPENSE ELSE step
         \* useEffect(..., [values.type])
         run3 == ~m \/ Get(rendered.values, "type") # Get(V, "type")
         step3 == IF run3 THEN STEPS.PAYEE ELSE step2
         clear == run3 /\ typeEffectClearsPayee(V)
         f3 == IF clear THEN With(f2, "payee", Null) ELSE f2
         \* useEffect(..., [formPersister, dirty])
         run4 == ~m \/ renderedDirty # D
         load == run4 /\ shouldLoadValues(D)
         hydrate == load /\ Truthy(persisted)
         f4 == IF hydrate THEN hydratedValues(persisted) ELSE f3
         \* useEffect(..., [formPersister, dirty, values])
         run5 == ~m \/ renderedDirty # D \/ rendered.values # V
         save == run5 /\ shouldSaveValues(D)
     IN /\ values' = f4
        /\ step' = step3
        /\ errors' = IF fromDraft \/ defaultProfile \/ prefill \/ clear \/ hydrate
                       THEN FormikValidate(f4)
                       ELSE errors
        /\ persisted' = IF save THEN V ELSE persisted
        /\ persisterCalls' = [loadValues |-> load, setValues |-> hydrate, saveValues |-> save]
        /\ payeeFresh' = IF hydrate THEN IsObject(Get(f4, "payee"))
                         ELSE IF clear THEN FALSE
                         ELSE fromDraft
        /\ rendered' = CurrentRender
        /\ typeChange' = TypeChangeOf(V, f4, typeChange)
  /\ event' = IF event \in {"Mount", "MountEffects"} THEN "MountEffects" ELSE "RunEffects"
  /\ onSubmitCall' = Undefined
  /\ UNCHANGED <<props, loggedInAccount, payoutProfiles, initialValues, hasValidate, pureVars, popUpVars, collectiveVars>>

\* What every event handler leaves alone, and the bookkeeping of the step.
UserEvent(name, newValues, fresh) ==
  /\ values' = newValues
  /\ payeeFresh' = fresh
  /\ persisterCalls' = NoPersisterCalls
  /\ event' = name
  /\ typeChange' = TypeChangeOf(values, newValues, NoTypeChange)
  /\ UNCHANGED <<props, initialValues, rendered, persisted, pureVars, popUpVars, collectiveVars>>

\* What the render shows
PayeeStepShown == Truthy(Get(values, "type")) /\ step = STEPS.PAYEE
ExpenseStepShown == Truthy(Get(values, "type")) /\ step = STEPS.EXPENSE
SignUpStepShown == isDraft /\ ~Truthy(loggedInAccount)

\* A Formik field of the form is changed: formik.handleChange or
\* formik.setFieldValue, followed by the validation on change.
SetField(name, path, v, fresh) ==
  /\ UserEvent(name, SetPath(values, path, v), fresh)
  /\ errors' = FormikValidate(SetPath(values, path, v))
  /\ onSubmitCall' = Undefined
  /\ UNCHANGED <<step, hasValidate, loggedInAccount, payoutProfiles>>

\* ExpenseTypeRadioSelect onChange
ChangeType ==
  /\ Settled
  /\ \E t \in {RECEIPT, INVOICE} :
       /\ t # Get(values, "type")
       /\ SetField("ChangeType", <<"type">>, t, FALSE)

\* ExpenseFormPayeeStep: the payee picker offers the payout profiles, and the
\* invitation of a payee, which builds a new payee object each time.
SelectPayee ==
  /\ Settled /\ PayeeStepShown /\ ~SignUpStepShown
  /\ \/ \E i \in DOMAIN payoutProfiles.array :
            /\ payoutProfiles.array[i] # Get(values, "payee")
            /\ SetField("SelectPayee", <<"payee">>, payoutProfiles.array[i], FALSE)
     \/ SetField("SelectPayee", <<"payee">>, InvitedPayee, TRUE)

\* The payee steps: the payout method and the location of the payee
SetPayoutMethod ==
  /\ Settled /\ PayeeStepShown
  /\ \E pm \in {PayPalMethod, BankAccountMethod} :
       /\ pm # Get(values, "payoutMethod")
       /\ SetField("SetPayoutMethod", <<"payoutMethod">>, pm, FALSE)

SetLocation ==
  /\ Settled /\ PayeeStepShown
  /\ FullLocation # Get(values, "payeeLocation")
  /\ SetField("SetLocation", <<"payeeLocation">>, FullLocation, FALSE)

\* onNext goes to the EXPENSE step without looking at the validation.
NextPayeeStep_noCheck ==
  /\ Settled /\ PayeeStepShown /\ ~SignUpStepShown
  /\ step' = STEPS.EXPENSE /\ errors' = errors
  /\ UserEvent("NextPayeeStep", values, FALSE)
  /\ onSubmitCall' = Undefined
  /\ UNCHANGED <<hasValidate, loggedInAccount, payoutProfiles>>

\* ExpenseFormPayeeStep onNext
NextPayeeStep ==
  /\ Settled /\ PayeeStepShown /\ ~SignUpStepShown
  /\ LET validation == validatePayoutMethod(Get(values, "payoutMethod"))
     IN IF isEmpty(validation)
          THEN step' = STEPS.EXPENSE /\ errors' = errors
          ELSE step' = step /\ errors' = [payoutMethod |-> validation]
  /\ UserEvent("NextPayeeStep", values, FALSE)
  /\ onSubmitCall' = Undefined
  /\ UNCHANGED <<hasValidate, loggedInAccount, payoutProfiles>>

\* ExpenseFormPayeeSignUpStep onNext
NextSignUpStep ==
  /\ Settled /\ PayeeStepShown /\ SignUpStepShown
  /\ step' = STEPS.EXPENSE
  /\ UserEvent("NextSignUpStep", values, FALSE)
  /\ onSubmitCall' = Undefined
  /\ UNCHANGED <<errors, hasValidate, loggedInAccount, payoutProfiles>>

\* The description field
EditDescription ==
  /\ Settled /\ ExpenseStepShown
  /\ Str("Taxi") # Get(values, "description")
  /\ SetField("EditDescription", <<"description">>, Str("Taxi"), FALSE)

\* addNewExpenseItem(formik)
AddItem ==
  /\ Settled /\ ExpenseStepShown /\ hasBaseFormFieldsCompleted(values)
  /\ Length(values.items) < MaxItems
  /\ SetField("AddItem", <<"items">>, Arr(Append(values.items.array, NewItem)), FALSE)

\* ExpenseFormItems: the fields of an item are filled in
EditItem ==
  /\ Settled /\ ExpenseStepShown /\ hasBaseFormFieldsCompleted(values)
  /\ \E i \in DOMAIN values.items.array :
       /\ values.items.array[i] # CompleteItem
       /\ SetField("EditItem", <<"items">>,
                   Arr([values.items.array EXCEPT ![i] = CompleteItem]), FALSE)

\* ExpenseFormItems: an item is removed
RemoveItem ==
  /\ Settled /\ ExpenseStepShown /\ hasBaseFormFieldsCompleted(values)
  /\ Length(values.items) > 0
  /\ SetField("RemoveItem", <<"items">>,
              Arr(SubSeq(values.items.array, 1, Length(values.items) - 1)), FALSE)

\* Back clears the payee under the condition of the type effect.
backClearsPayee_unlessDraft(v) == ~isDraft /\ Truthy(GetPath(v, <<"payee", "isInvite">>))

\* if (values.payee?.isInvite) formik.setFieldValue('payee', null)
backClearsPayee(v) == Truthy(GetPath(v, <<"payee", "isInvite">>))

\* The Back button
Back ==
  /\ Settled /\ ExpenseStepShown /\ hasBaseFormFieldsCompleted(values)
  /\ step' = STEPS.PAYEE
  /\ IF backClearsPayee(values)
       THEN /\ UserEvent("Back", With(values, "payee", Null), FALSE)
            /\ errors' = FormikValidate(With(values, "payee", Null))
       ELSE /\ UserEvent("Back", values, FALSE)
            /\ errors' = errors
  /\ onSubmitCall' = Undefined
  /\ UNCHANGED <<hasValidate, loggedInAccount, payoutProfiles>>

\* The handler never rejects the values.
submitRejected_never(submitErrors) == FALSE

\* if (!isEmpty(errors)) { setValidate(true); formik.setErrors(errors) }
submitRejected(submitErrors) == ~isEmpty(submitErrors)

\* The handler sanitizes the values itself.
onSubmitArgument_sanitized(v) == prepareExpenseForSubmit(v)

\* return onSubmit(values)
onSubmitArgument(v) == v

\* The submit button: Formik validates with the `validate` prop when
\* hasValidate is set and calls onSubmit only without errors.
Submit ==
  /\ Settled /\ ExpenseStepShown /\ hasBaseFormFieldsCompleted(values)
  /\ stepTwoCompleted(values, errors) /\ isValid
  /\ LET formikErrors == IF hasValidate THEN validate(values) ELSE EmptyObject
         submitErrors == validate(values)
     IN IF ~isEmpty(formikErrors)
          THEN errors' = formikErrors /\ hasValidate' = hasValidate /\ onSubmitCall' = Undefined
        ELSE IF submitRejected(submitErrors)
          THEN errors' = submitErrors /\ hasValidate' = TRUE /\ onSubmitCall' = Undefined
        ELSE /\ errors' = EmptyObject /\ hasValidate' = hasValidate
             /\ onSubmitCall' = onSubmitArgument(values)
  /\ UserEvent("Submit", values, FALSE)
  /\ UNCHANGED <<step, loggedInAccount, payoutProfiles>>

\* The user logs in: loggedInAccount and payoutProfiles are set.
Login ==
  /\ Settled /\ ~Truthy(loggedInAccount)
  /\ loggedInAccount' = Account
  /\ payoutProfiles' = Arr(<<ProfileA, ProfileB>>)
  /\ UserEvent("Login", values, FALSE)
  /\ onSubmitCall' = Undefined
  /\ UNCHANGED <<step, errors, hasValidate>>

\* ------------------------------------------------------------------------
\* Initial states and specifications
\* ------------------------------------------------------------------------

\* The `expense` prop: none (a new expense), an expense being edited, a draft
\* written on behalf of an invited payee, a draft completed by its payee.
NewExpense == Undefined
FilledExpense ==
  [id |-> Str("e1"), status |-> Str("PENDING"), type |-> RECEIPT, description |-> Str("Taxi"),
   payee |-> ProfileA, payoutMethod |-> PayPalMethod,
   items |-> Arr(<<[CompleteItem EXCEPT !.__isNew = Bool(FALSE)]>>)]
DraftOnBehalf ==
  [id |-> Str("e2"), status |-> Str("DRAFT"), type |-> INVOICE, description |-> Str("Taxi"),
   payee |-> InvitedPayee, payoutMethod |-> PayPalMethod, payeeLocation |-> FullLocation,
   draft |-> [items |-> Arr(<<CompleteItem>>), attachedFiles |-> Arr(<<>>)]]
DraftForPayee ==
  [id |-> Str("e3"), status |-> Str("DRAFT"), type |-> INVOICE, description |-> Str("Taxi"),
   draft |-> [payee |-> [name |-> Str("Guest"), email |-> Str("g@x.org")],
              items |-> Arr(<<CompleteItem>>), attachedFiles |-> Arr(<<>>)]]
ExpenseProps == {NewExpense, FilledExpense, DraftOnBehalf, DraftForPayee}

\* Values saved by an earlier session of the form, with the deprecated fields.
StoredValues ==
  Spread(getDefaultExpense(Collective),
         [type |-> RECEIPT, description |-> Str("Taxi"), payee |-> InvitedPayee,
          payoutMethod |-> BankAccountMethod,
          location |-> [country |-> Str("US")], privateInfo |-> Str("secret")])

PropsSet ==
  {[expense |-> e, validateOnChange |-> v, formPersister |-> fp,
    shouldLoadValuesFromPersister |-> sl, hostTransferwise |-> tw] :
     e \in ExpenseProps, v \in BOOLEAN, fp \in BOOLEAN, sl \in BOOLEAN, tw \in BOOLEAN}

PureIdle ==
  /\ expense = Undefined
  /\ call = "none"
  /\ result = Undefined
  /\ result2 = Undefined

\* CreateCollectiveForm is not mounted and its validator is not applied.
CollectiveIdle ==
  /\ collectiveProps = Undefined
  /\ collectiveValues = Undefined
  /\ collectiveTouched = Undefined
  /\ collectiveErrors = Undefined
  /\ focus = "none"
  /\ slugTyped = FALSE
  /\ collectiveEvent = "none"
  /\ collectiveInput = Undefined
  /\ collectiveResult = Undefined

\* The pop-up is not mounted while the form or the functions are exercised.
PopUpIdle ==
  /\ popUpProps = Undefined
  /\ menuState = "mainMenu"
  /\ inFlight = 0
  /\ mutations = <<>>
  /\ toasts = <<>>
  /\ closeEdits = 0
  /\ popUpEvent = "none"

\* validateOnChange is read for every expense.
initialHasValidate_drafts(p) == p.validateOnChange

\* React.useState(validateOnChange && !isDraft)
initialHasValidate(p) == p.validateOnChange /\ ~IsDraftExpense(p.expense)

\* The state after the first render of ExpenseForm, before its effects run.
\* hostTransferwise is read only when stored values are loaded.
Init ==
  /\ props \in PropsSet
  /\ props.shouldLoadValuesFromPersister => props.formPersister
  /\ loggedInAccount \in {Null, Account}
  /\ payoutProfiles = IF Truthy(loggedInAccount) THEN Arr(<<ProfileA, ProfileB>>) ELSE Arr(<<>>)
  /\ initialValues = InitialValuesOf(props.expense)
  /\ values = initialValues
  /\ errors = EmptyObject
  /\ step = IF stepOneCompleted(initialValues, EmptyObject) THEN STEPS.EXPENSE ELSE STEPS.PAYEE
  /\ hasValidate = initialHasValidate(props)
  /\ rendered = [mounted |-> FALSE, values |-> Undefined, payoutProfiles |-> Undefined,
                 loggedInAccount |-> Undefined]
  /\ payeeFresh = FALSE
  /\ persisted \in IF props.shouldLoadValuesFromPersister THEN {Null, StoredValues}
                  ELSE IF props.formPersister THEN {StoredValues}
                  ELSE {Null}
  /\ (props.hostTransferwise => props.shouldLoadValuesFromPersister /\ persisted = StoredValues)
  /\ onSubmitCall = Undefined
  /\ persisterCalls = NoPersisterCalls
  /\ event = "Mount"
  /\ typeChange = NoTypeChange
  /\ PureIdle
  /\ PopUpIdle
  /\ CollectiveIdle

Next ==
  \/ RunEffects
  \/ ChangeType
  \/ SelectPayee
  \/ SetPayoutMethod
  \/ SetLocation
  \/ NextPayeeStep
  \/ NextSignUpStep
  \/ EditDescription
  \/ AddItem
  \/ EditItem
  \/ RemoveItem
  \/ Back
  \/ Submit
  \/ Login

Spec == Init /\ [][Next]_vars

\* ------------------------------------------------------------------------
\* The validator and the sanitizer applied to bounded records
\* ------------------------------------------------------------------------

MaxInputItems == 2

\* A key the record does not have.
Absent == [absent |-> TRUE]
Field(k, v) == IF v = Absent THEN EmptyObject ELSE (k :> v)

TypeInputs == {Absent, RECEIPT, INVOICE, FUNDING_REQUEST}
DescriptionInputs == {Str(""), Str("Taxi")}
CurrencyInputs == {Absent, Str("USD")}
PayeeInputs ==
  {Absent, Null,
   [id |-> Str("p1"), name |-> Str("Ann")],
   [id |-> Num(7), name |-> Str("Old")],
   [id |-> Str("p2"), isInvite |-> Bool(TRUE), name |-> Str("Bob")],
   [isInvite |-> Bool(TRUE)],
   [isInvite |-> Bool(TRUE), name |-> Str("Guest")],
   [isInvite |-> Bool(TRUE), email |-> Str("g@x.org")],
   [isInvite |-> Bool(TRUE), name |-> Str("Guest"), email |-> Str("g@x.org"),
    organization |-> [name |-> Str("Org")]],
   [isNewUser |-> Bool(TRUE), name |-> Str("New"), email |-> Str("n@x.org"),
    newsletterOptIn |-> Bool(FALSE)]}
PayoutMethodInputs == {Absent, PayPalMethod, BankAccountMethod}
LocationInputs ==
  {Absent, DefaultLocation, [address |-> Str(""), country |-> Str("BE")],
   [address |-> Str("2 av"), country |-> Null],
   [address |-> Str("2 av"), country |-> Str("BE"), structured |-> Null]}
ExampleItem == [__isNew |-> Bool(TRUE), description |-> Str("x"), amount |-> Num(5),
                url |-> Str("http://x")]
SavedItem == [id |-> Str("i1"), description |-> Str("y"), incurredAt |-> Str("2021-01-01"),
              amount |-> Num(7), url |-> Str("http://y")]
ItemInputs == {ExampleItem, CompleteItem, SavedItem}
ItemsInputs == {Arr(items) : items \in UNION {[1..n -> ItemInputs] : n \in 0..MaxInputItems}}
AttachedFilesInputs == {Absent, Arr(<<[id |-> Str("f1"), url |-> Str("http://f"), name |-> Str("f")]>>)}

ExpenseInputs ==
  {Field("type", t) @@ Field("description", d) @@ Field("currency", c) @@ Field("payee", p)
     @@ Field("payoutMethod", pm) @@ Field("payeeLocation", loc) @@ Field("items", items)
     @@ Field("attachedFiles", files) :
     t \in TypeInputs, d \in DescriptionInputs, c \in CurrencyInputs, p \in PayeeInputs,
     pm \in PayoutMethodInputs, loc \in LocationInputs, items \in ItemsInputs,
     files \in AttachedFilesInputs}

\* The form is not mounted while the functions are applied on their own.
FormIdle ==
  /\ props = [expense |-> Undefined, validateOnChange |-> FALSE, formPersister |-> FALSE,
              shouldLoadValuesFromPersister |-> FALSE, hostTransferwise |-> FALSE]
  /\ loggedInAccount = Null
  /\ payoutProfiles = Arr(<<>>)
  /\ initialValues = EmptyObject
  /\ values = EmptyObject
  /\ errors = EmptyObject
  /\ step = STEPS.PAYEE
  /\ hasValidate = FALSE
  /\ rendered = [mounted |-> FALSE, values |-> Undefined, payoutProfiles |-> Undefined,
                 loggedInAccount |-> Undefined]
  /\ payeeFresh = FALSE
  /\ persisted = Null
  /\ onSubmitCall = Undefined
  /\ persisterCalls = NoPersisterCalls
  /\ event = "none"
  /\ typeChange = NoTypeChange

InitPure ==
  /\ expense \in ExpenseInputs
  /\ call = "none"
  /\ result = Undefined
  /\ result2 = Undefined
  /\ FormIdle
  /\ PopUpIdle
  /\ CollectiveIdle

\* validate(expense)
CallValidate ==
  /\ call = "none"
  /\ call' = "validate"
  /\ result' = validate(expense)
  /\ UNCHANGED <<expense, result2, formVars, popUpVars, collectiveVars>>

\* prepareExpenseForSubmit(expense)
CallPrepare ==
  /\ call = "none"
  /\ call' = "prepare"
  /\ result' = prepareExpenseForSubmit(expense)
  /\ UNCHANGED <<expense, result2, formVars, popUpVars, collectiveVars>>

\* prepareExpenseForSubmit(prepareExpenseForSubmit(expense)), when the first
\* call returned.
CallPrepareAgain ==
  /\ call = "prepare" /\ result # TypeError
  /\ call' = "prepareAgain"
  /\ result2' = prepareExpenseForSubmit(result)
  /\ UNCHANGED <<expense, result, formVars, popUpVars, collectiveVars>>

NextPure == CallValidate \/ CallPrepare \/ CallPrepareAgain

SpecPure == InitPure /\ [][NextPure]_vars

\* ------------------------------------------------------------------------
\* RecurringContributionsPopUp
\* ------------------------------------------------------------------------

MaxCancellations == 2
MaxCloseEdits == 2

TOAST_TYPE == [INFO |-> "INFO", ERROR |-> "ERROR"]

PopUpPropsSet ==
  {[contribution |-> [id |-> Str(c)], status |-> st, account |-> [type |-> t]] :
     c \in {"order1", "order2"}, st \in {"ACTIVE", "ERROR", "CANCELLED"},
     t \in {"COLLECTIVE", "USER"}}

\* useMutation: loading, from the call of submitCancellation until it settles
loadingCancellation == inFlight > 0

\* const mainMenu, cancelMenu, updateOrderMenu, paymentMethodMenu
mainMenu == menuState = "mainMenu" /\ popUpProps.status \in {"ACTIVE", "ERROR"}
cancelMenu == menuState = "cancelMenu"
updateOrderMenu == menuState = "updateOrderMenu"
paymentMethodMenu == menuState = "paymentMethodMenu"

\* The "Yes" button takes clicks whatever `loading` is.
yesClickable_always(loading) == TRUE

\* StyledButton with `loading` shows a spinner and has no onClick.
yesClickable(loading) == ~loading

\* The "No, wait" button is never disabled.
noDisabled_never(loading) == FALSE

\* <StyledButton disabled={loadingCancellation}>
noDisabled(loading) == loading

\* The close icon of the cancel menu is inert while the mutation is pending.
closeClickable_unlessLoading(loading) == ~loading

\* <GrayXCircle onClick={onCloseEdit} /> of the cancel menu
closeClickable(loading) == TRUE

\* What a step of the pop-up leaves alone
PopUpStep(name) ==
  /\ popUpEvent' = name
  /\ UNCHANGED <<popUpProps, formVars, pureVars, collectiveVars>>

\* The state after the first render of RecurringContributionsPopUp
InitPopUp ==
  /\ popUpProps \in PopUpPropsSet
  /\ menuState = "mainMenu"
  /\ inFlight = 0
  /\ mutations = <<>>
  /\ toasts = <<>>
  /\ closeEdits = 0
  /\ popUpEvent = "Mount"
  /\ FormIdle
  /\ PureIdle
  /\ CollectiveIdle

\* "Update payment method" is offered to every account.
paymentMethodOffered_always(account) == TRUE

\* {account.type !== 'COLLECTIVE' && (<MenuItem ...>)}
paymentMethodOffered(account) == account.type # "COLLECTIVE"

\* main menu: "Update payment method"
ClickPaymentMethod ==
  /\ mainMenu /\ paymentMethodOffered(popUpProps.account)
  /\ menuState' = "paymentMethodMenu"
  /\ PopUpStep("ClickPaymentMethod")
  /\ UNCHANGED <<inFlight, mutations, toasts, closeEdits>>

\* main menu: "Update amount"
ClickUpdateOrder ==
  /\ mainMenu
  /\ menuState' = "updateOrderMenu"
  /\ PopUpStep("ClickUpdateOrder")
  /\ UNCHANGED <<inFlight, mutations, toasts, closeEdits>>

\* main menu: "Cancel contribution"
ClickCancel ==
  /\ mainMenu
  /\ menuState' = "cancelMenu"
  /\ PopUpStep("ClickCancel")
  /\ UNCHANGED <<inFlight, mutations, toasts, closeEdits>>

\* UpdatePaymentMethodPopUp and UpdateOrderPopUp are handed setMenuState and
\* return to the main menu with it.
SubMenuBack ==
  /\ updateOrderMenu \/ paymentMethodMenu
  /\ menuState' = "mainMenu"
  /\ PopUpStep("SubMenuBack")
  /\ UNCHANGED <<inFlight, mutations, toasts, closeEdits>>

\* main menu: the close icon
CloseMainMenu ==
  /\ mainMenu
  /\ closeEdits < MaxCloseEdits
  /\ closeEdits' = closeEdits + 1
  /\ PopUpStep("CloseMainMenu")
  /\ UNCHANGED <<menuState, inFlight, mutations, toasts>>

\* cancel menu: the close icon
CloseCancelMenu ==
  /\ cancelMenu
  /\ closeClickable(loadingCancellation)
  /\ closeEdits < MaxCloseEdits
  /\ closeEdits' = closeEdits + 1
  /\ PopUpStep("CloseCancelMenu")
  /\ UNCHANGED <<menuState, inFlight, mutations, toasts>>

\* The variables of the cancel mutation are sent twice.
cancellationRequests_twice(sent, contribution) ==
  sent \o <<[order |-> [id |-> contribution.id]], [order |-> [id |-> contribution.id]]>>

\* submitCancellation({ variables: { order: { id: contribution.id } } })
cancellationRequests(sent, contribution) ==
  Append(sent, [order |-> [id |-> contribution.id]])

\* cancel menu: "Yes", up to the await
ClickYes ==
  /\ cancelMenu
  /\ yesClickable(loadingCancellation)
  /\ Len(mutations) < MaxCancellations
  /\ mutations' = cancellationRequests(mutations, popUpProps.contribution)
  /\ inFlight' = inFlight + 1
  /\ PopUpStep("ClickYes")
  /\ UNCHANGED <<menuState, toasts, closeEdits>>

\* cancel menu: "No, wait"
ClickNo ==
  /\ cancelMenu
  /\ ~noDisabled(loadingCancellation)
  /\ menuState' = "mainMenu"
  /\ PopUpStep("ClickNo")
  /\ UNCHANGED <<inFlight, mutations, toasts, closeEdits>>

\* The mutation resolves: the rest of the try block
CancellationSucceeds ==
  /\ inFlight > 0
  /\ inFlight' = inFlight - 1
  /\ closeEdits' = closeEdits + 1
  /\ toasts' = Append(toasts, TOAST_TYPE.INFO)
  /\ PopUpStep("CancellationSucceeds")
  /\ UNCHANGED <<menuState, mutations>>

\* The mutation rejects: the catch block
CancellationFails ==
  /\ inFlight > 0
  /\ inFlight' = inFlight - 1
  /\ toasts' = Append(toasts, TOAST_TYPE.ERROR)
  /\ PopUpStep("CancellationFails")
  /\ UNCHANGED <<menuState, mutations, closeEdits>>

NextPopUp ==
  \/ ClickPaymentMethod
  \/ ClickUpdateOrder
  \/ ClickCancel
  \/ SubMenuBack
  \/ CloseMainMenu
  \/ CloseCancelMenu
  \/ ClickYes
  \/ ClickNo
  \/ CancellationSucceeds
  \/ CancellationFails

SpecPopUp == InitPopUp /\ [][NextPopUp]_vars

\* ------------------------------------------------------------------------
\* CreateCollectiveForm
\* ------------------------------------------------------------------------

\* The strings of this form are sequences of characters.
Chars(n, c) == [i \in 1..n |-> c]

\* String.prototype.toUpperCase and toLowerCase, on the letters that are used
toUpperCase(c) ==
  CASE c = "a" -> "A" [] c = "m" -> "M" [] c = "r" -> "R" [] c = "x" -> "X" [] OTHER -> c
toLowerCase(c) ==
  CASE c = "A" -> "a" [] c = "M" -> "m" [] c = "R" -> "r" [] c = "X" -> "x" [] OTHER -> c

\* lodash trim(string, chars) for one character
RECURSIVE trimStart(_, _)
trimStart(str, c) ==
  IF str # <<>> /\ Head(str) = c THEN trimStart(Tail(str), c) ELSE str
RECURSIVE trimEnd(_, _)
trimEnd(str, c) ==
  IF str # <<>> /\ str[Len(str)] = c THEN trimEnd(SubSeq(str, 1, Len(str) - 1), c) ELSE str
trim(str, c) == trimEnd(trimStart(str, c), c)

\* repoName.replace(/[-_]/g, ' ').replace(/(?:^|\s)\S/g, words => words.toUpperCase())
formatGithubRepoName(repoName) ==
  LET spaced == [i \in DOMAIN repoName |->
                   IF repoName[i] \in {"-", "_"} THEN " " ELSE repoName[i]]
  IN [i \in DOMAIN spaced |->
        IF spaced[i] # " " /\ (i = 1 \/ spaced[i - 1] = " ")
          THEN toUpperCase(spaced[i])
          ELSE spaced[i]]

\* lib/collective.lib suggestSlug: the lower-case, hyphenated form of a name
suggestSlug(value) ==
  trim([i \in DOMAIN value |-> IF value[i] = " " THEN "-" ELSE toLowerCase(value[i])], "-")

messages ==
  [errorName |-> "Please use fewer than 50 characters",
   errorDescription |-> "Please use fewer than 160 characters",
   errorSlug |-> "Please use fewer than 30 characters",
   errorSlugHyphen |-> "Collective slug can not start nor end with hyphen"]

\* The lengths that the validator compares with
NameLength == 50
SlugLength == 30
DescriptionLength == 160

\* if (values.name.length > 50) errors.name = ...
validateName(v, errs) ==
  IF Len(v.name) > NameLength THEN With(errs, "name", messages.errorName) ELSE errs

\* if (values.slug.length > 30) errors.slug = ...
validateSlugLength(v, errs) ==
  IF Len(v.slug) > SlugLength THEN With(errs, "slug", messages.errorSlug) ELSE errs

\* if (values.slug !== trim(values.slug, '-')) errors.slug = ...
validateSlugHyphen(v, errs) ==
  IF v.slug # trim(v.slug, "-") THEN With(errs, "slug", messages.errorSlugHyphen) ELSE errs

\* if (values.description.length > 160) errors.description = ...
validateDescription(v, errs) ==
  IF Len(v.description) > DescriptionLength
    THEN With(errs, "description", messages.errorDescription)
    ELSE errs

\* const validate = values => { ... } of CreateCollectiveForm.render
validateCollective(v) ==
  validateDescription(v, validateSlugHyphen(v, validateSlugLength(v, validateName(v, EmptyObject))))

\* The slug follows the name whether or not the slug field was touched.
handleSlugChange_always(touchedSlug, slug, value) == suggestSlug(value)

\* handleSlugChange: if (!touched.slug) setFieldValue('slug', suggestSlug(e.target.value))
handleSlugChange(touchedSlug, slug, value) ==
  IF ~touchedSlug THEN suggestSlug(value) ELSE slug

CollectiveFields == {"name", "slug", "description"}

CollectivePropsSet == {[github |-> Null], [github |-> [repo |-> <<"m", "a", "-", "r", "a">>]]}

\* const initialValues = { name, description, slug }
collectiveInitialValues(p) ==
  [name |-> IF Truthy(p.github) THEN formatGithubRepoName(p.github.repo) ELSE <<>>,
   description |-> <<>>,
   slug |-> IF Truthy(p.github) THEN p.github.repo ELSE <<>>]

\* What the user types
TypedNames == {<<"M", "a", " ", "R", "a">>, <<"X", "a">>, Chars(NameLength + 1, "a")}
TypedSlugs == {<<"x", "a">>, <<"-", "x">>}
TypedDescriptions == {<<"a">>, Chars(DescriptionLength + 1, "a")}

\* The validator is not applied on its own while the form is used.
CollectiveValidatorIdle ==
  /\ collectiveInput = Undefined
  /\ collectiveResult = Undefined

\* The state after the first render of CreateCollectiveForm
InitCollective ==
  /\ collectiveProps \in CollectivePropsSet
  /\ collectiveValues = collectiveInitialValues(collectiveProps)
  /\ collectiveTouched = [f \in CollectiveFields |-> FALSE]
  /\ collectiveErrors = EmptyObject
  /\ focus = "none"
  /\ slugTyped = FALSE
  /\ collectiveEvent = "Mount"
  /\ CollectiveValidatorIdle
  /\ FormIdle
  /\ PureIdle
  /\ PopUpIdle

\* What a step of the form leaves alone
CollectiveStep(name) ==
  /\ collectiveEvent' = name
  /\ UNCHANGED <<collectiveProps, collectiveInput, collectiveResult, formVars, pureVars, popUpVars>>

\* The focus moves to a field or out of the form: Formik's handleBlur marks
\* the field that is left as touched and validates.
MoveFocus ==
  \E f \in CollectiveFields \cup {"none"} :
    /\ f # focus
    /\ focus' = f
    /\ IF focus = "none"
         THEN UNCHANGED <<collectiveTouched, collectiveErrors>>
         ELSE /\ collectiveTouched' = [collectiveTouched EXCEPT ![focus] = TRUE]
              /\ collectiveErrors' = validateCollective(collectiveValues)
    /\ CollectiveStep("MoveFocus")
    /\ UNCHANGED <<collectiveValues, slugTyped>>

\* The name field: Formik's handleChange, then handleSlugChange on the
\* StyledInputField that contains it; validateOnChange
ChangeName ==
  /\ focus = "name"
  /\ \E v \in TypedNames :
       /\ v # collectiveValues.name
       /\ collectiveValues' =
            [collectiveValues EXCEPT
               !.name = v,
               !.slug = handleSlugChange(collectiveTouched.slug, collectiveValues.slug, v)]
  /\ collectiveErrors' = validateCollective(collectiveValues')
  /\ CollectiveStep("ChangeName")
  /\ UNCHANGED <<collectiveTouched, focus, slugTyped>>

\* The slug field: setFieldValue('slug', e.target.value); validateOnChange
ChangeSlug ==
  /\ focus = "slug"
  /\ \E v \in TypedSlugs :
       /\ v # collectiveValues.slug
       /\ collectiveValues' = [collectiveValues EXCEPT !.slug = v]
  /\ collectiveErrors' = validateCollective(collectiveValues')
  /\ slugTyped' = TRUE
  /\ CollectiveStep("ChangeSlug")
  /\ UNCHANGED <<collectiveTouched, focus>>

\* The description field: Formik's handleChange; validateOnChange
ChangeDescription ==
  /\ focus = "description"
  /\ \E v \in TypedDescriptions :
       /\ v # collectiveValues.description
       /\ collectiveValues' = [collectiveValues EXCEPT !.description = v]
  /\ collectiveErrors' = validateCollective(collectiveValues')
  /\ CollectiveStep("ChangeDescription")
  /\ UNCHANGED <<collectiveTouched, focus, slugTyped>>

\* The form is submitted with its required fields filled in: Formik marks
\* every field as touched and validates before it calls `submit`.
SubmitCollective ==
  /\ \A f \in CollectiveFields : collectiveValues[f] # <<>>
  /\ collectiveTouched' = [f \in CollectiveFields |-> TRUE]
  /\ collectiveErrors' = validateCollective(collectiveValues)
  /\ focus' = "none"
  /\ CollectiveStep("SubmitCollective")
  /\ UNCHANGED <<collectiveValues, slugTyped>>

NextCollective ==
  \/ MoveFocus
  \/ ChangeName
  \/ ChangeSlug
  \/ ChangeDescription
  \/ SubmitCollective

SpecCollective == InitCollective /\ [][NextCollective]_vars

\* The validator applied to bounded records: names, slugs and descriptions
\* around the three lengths, slugs with and without hyphens at their ends.
CollectiveNameInputs == {Chars(n, "a") : n \in {0, 1, NameLength - 1, NameLength, NameLength + 1}}
CollectiveSlugInputs ==
  {[i \in 1..n |-> IF (i = 1 /\ lead) \/ (i = n /\ trail) THEN "-" ELSE "a"] :
     n \in {0, 1, 2, SlugLength - 1, SlugLength, SlugLength + 1},
     lead \in BOOLEAN, trail \in BOOLEAN}
CollectiveDescriptionInputs ==
  {Chars(n, "a") : n \in {0, DescriptionLength - 1, DescriptionLength, DescriptionLength + 1}}

\* The form is not mounted while the validator is applied on its own.
CollectiveFormIdle ==
  /\ collectiveProps = Undefined
  /\ collectiveValues = Undefined
  /\ collectiveTouched = Undefined
  /\ collectiveErrors = Undefined
  /\ focus = "none"
  /\ slugTyped = FALSE
  /\ collectiveEvent = "none"

InitCollectiveValidate ==
  /\ collectiveInput \in [name : CollectiveNameInputs, slug : CollectiveSlugInputs,
                          description : CollectiveDescriptionInputs]
  /\ collectiveResult = Undefined
  /\ CollectiveFormIdle
  /\ FormIdle
  /\ PureIdle
  /\ PopUpIdle

\* validate(values)
CallValidateCollective ==
  /\ collectiveResult = Undefined
  /\ collectiveResult' = validateCollective(collectiveInput)
  /\ UNCHANGED <<collectiveInput, collectiveProps, collectiveValues, collectiveTouched,
                 collectiveErrors, focus, slugTyped, collectiveEvent,
                 formVars, pureVars, popUpVars>>

SpecCollectiveValidate == InitCollectiveValidate /\ [][CallValidateCollective]_vars

\* ------------------------------------------------------------------------
\* Properties of the validator (SpecPure)
\* ------------------------------------------------------------------------

Invited(e) == Truthy(GetPath(e, <<"payee", "isInvite">>))
HasErrorAt(errs, path) == Truthy(GetPath(errs, path))
countryPath == <<"payeeLocation", "country">>
addressPath == <<"payeeLocation", "address">>

\* C5 as stated: every INVOICE record without payeeLocation.country, invited
\* payees included, gets an error for payeeLocation.country, and one without
\* payeeLocation.address an error for payeeLocation.address.
C5_AnyPayee ==
  (call = "validate" /\ Get(expense, "type") = INVOICE) =>
    /\ ~Truthy(GetPath(expense, countryPath)) => HasErrorAt(result, countryPath)
    /\ ~Truthy(GetPath(expense, addressPath)) => HasErrorAt(result, addressPath)

\* C5 amended: every INVOICE record whose payee is not an invited payee gets
\* an error for payeeLocation.country when the country is missing and an
\* error for payeeLocation.address when the address is missing.
C5_NotInvited ==
  (call = "validate" /\ Get(expense, "type") = INVOICE /\ ~Invited(expense)) =>
    /\ ~Truthy(GetPath(expense, countryPath)) => HasErrorAt(result, countryPath)
    /\ ~Truthy(GetPath(expense, addressPath)) => HasErrorAt(result, addressPath)

C5_Witness ==
  /\ call = "validate" /\ Get(expense, "type") = INVOICE /\ ~Invited(expense)
  /\ ~Truthy(GetPath(expense, countryPath)) /\ Truthy(GetPath(expense, addressPath))
  /\ HasErrorAt(result, countryPath) /\ ~HasErrorAt(result, addressPath)

InvitedWithoutIdAndEmail(e) ==
  /\ Invited(e)
  /\ ~Truthy(GetPath(e, <<"payee", "id">>))
  /\ ~Truthy(GetPath(e, <<"payee", "email">>))

\* C6 as stated: an invited payee with neither id nor email gets an error on
\* payee.name and an error on payee.email, whether or not the name is filled in.
C6_NameAndEmail ==
  (call = "validate" /\ InvitedWithoutIdAndEmail(expense)) =>
    /\ HasErrorAt(result, <<"payee", "name">>)
    /\ HasErrorAt(result, <<"payee", "email">>)

\* C6 amended: an invited payee with neither id nor email gets an error on
\* payee.email, and an error on payee.name exactly when the name is missing.
C6_EmailAndMissingName ==
  (call = "validate" /\ InvitedWithoutIdAndEmail(expense)) =>
    /\ HasErrorAt(result, <<"payee", "email">>)
    /\ HasErrorAt(result, <<"payee", "name">>) <=> ~Truthy(GetPath(expense, <<"payee", "name">>))

C6_Witness ==
  /\ call = "validate" /\ InvitedWithoutIdAndEmail(expense)
  /\ Truthy(GetPath(expense, <<"payee", "name">>))
  /\ HasErrorAt(result, <<"payee", "email">>)
  /\ ~HasErrorAt(result, <<"payee", "name">>)

\* C7: the required-field check depends on the payee mode.  An invited payee
\* with an id gets no error on payee.name, payee.email, payoutMethod or
\* currency; an invited payee without an id gets a required error on each of
\* payee.name and payee.email that is missing; a record that is not invited
\* gets a required error on exactly those of description, payee, payoutMethod
\* and currency that are missing.
C7_RequiredByPayeeMode ==
  call = "validate" =>
    IF Invited(expense) /\ Truthy(GetPath(expense, <<"payee", "id">>))
      THEN /\ ~HasErrorAt(result, <<"payee", "name">>)
           /\ ~HasErrorAt(result, <<"payee", "email">>)
           /\ {"payoutMethod", "currency"} \cap DOMAIN result = {}
    ELSE IF Invited(expense)
      THEN \A k \in {"name", "email"} :
             GetPath(result, <<"payee", k>>) = RequiredError
               <=> ~Truthy(GetPath(expense, <<"payee", k>>))
    ELSE \A k \in {"description", "payee", "payoutMethod", "currency"} :
           Get(result, k) = RequiredError <=> ~Truthy(Get(expense, k))

C7_Witness ==
  /\ call = "validate" /\ ~Invited(expense)
  /\ ~Truthy(Get(expense, "currency")) /\ Truthy(Get(expense, "payoutMethod"))
  /\ Truthy(Get(expense, "payee")) /\ ~Truthy(Get(expense, "description"))
  /\ Get(result, "currency") = RequiredError /\ Get(result, "description") = RequiredError
  /\ "payee" \notin DOMAIN result

\* C8: for a record that is not invited, errors.items is set exactly when some
\* item has an error, and then holds one entry per item, in the order of the
\* items, entry i being the errors of item i (empty for a valid item).
C8_ItemsAligned ==
  (call = "validate" /\ ~Invited(expense)) =>
    LET items == expense.items.array
        itemError(i) == validateExpenseItem(expense, items[i])
    IN IF \E i \in DOMAIN items : ~isEmpty(itemError(i))
         THEN /\ "items" \in DOMAIN result
              /\ IsArray(result.items)
              /\ Len(result.items.array) = Len(items)
              /\ \A i \in DOMAIN items : result.items.array[i] = itemError(i)
         ELSE "items" \notin DOMAIN result

C8_Witness ==
  /\ call = "validate" /\ ~Invited(expense)
  /\ Length(expense.items) = 2
  /\ "items" \in DOMAIN result
  /\ isEmpty(result.items.array[1]) /\ ~isEmpty(result.items.array[2])

\* ------------------------------------------------------------------------
\* Properties of the sanitizer (SpecPure)
\* ------------------------------------------------------------------------

InlinePayee(e) ==
  Truthy(GetPath(e, <<"payee", "isNewUser">>)) \/ Truthy(GetPath(e, <<"payee", "isInvite">>))

\* C9 as stated: prepareExpenseForSubmit is idempotent on every record on
\* which it yields a payload, new and invited payees and legacy ids included.
C9_Idempotent ==
  call = "prepareAgain" => result2 = result

\* C9 amended: prepareExpenseForSubmit is idempotent on every record whose
\* payee is an existing profile with a string id (neither isNewUser nor
\* isInvite), items flagged __isNew included.
C9_IdempotentForProfile ==
  (call = "prepareAgain" /\ ~InlinePayee(expense)
     /\ IsString(GetPath(expense, <<"payee", "id">>))) =>
    result2 = result

C9_Witness ==
  /\ call = "prepareAgain" /\ ~InlinePayee(expense)
  /\ IsString(GetPath(expense, <<"payee", "id">>))
  /\ \E i \in DOMAIN expense.items.array : Truthy(Get(expense.items.array[i], "__isNew"))
  /\ Get(expense, "type") = INVOICE
  /\ result2 = result

\* The item of the payload that the claim describes for an item of the input.
ExpectedItem(e, item) ==
  pick(item, {"description", "incurredAt", "amount"}
               \cup (IF Truthy(Get(item, "__isNew")) THEN {} ELSE {"id"})
               \cup (IF Get(e, "type") \in {INVOICE, FUNDING_REQUEST} THEN {} ELSE {"url"}))

\* C10: for every record, a record without a payee field included,
\* prepareExpenseForSubmit yields a payload each of whose items holds only
\* description, incurredAt and amount, the id unless the item is flagged
\* __isNew, and the url unless the type is INVOICE or FUNDING_REQUEST.
C10_ItemsOfEveryRecord ==
  call = "prepare" =>
    /\ result # TypeError
    /\ Len(result.items.array) = Len(expense.items.array)
    /\ \A i \in DOMAIN expense.items.array :
         result.items.array[i] = ExpectedItem(expense, expense.items.array[i])

\* ------------------------------------------------------------------------
\* Properties of the wizard (Spec)
\* ------------------------------------------------------------------------

PayeeIsInvited == Truthy(GetPath(values, <<"payee", "isInvite">>))

\* C1 as stated: once the effects have run after a change of values.type, the
\* step is PAYEE and a payee that was an invited payee is cleared, for draft
\* and other expenses alike.
C1_AnyExpense ==
  (Settled /\ typeChange.changed) =>
    /\ step = STEPS.PAYEE
    /\ typeChange.invited => Get(values, "payee") = Null

\* C1 amended: once the effects have run after a change of values.type, the
\* step is PAYEE; a payee that was an invited payee is cleared when the
\* expense is not a draft, and is kept when the expense is a draft.
C1_ClearedUnlessDraft ==
  (Settled /\ typeChange.changed) =>
    /\ step = STEPS.PAYEE
    /\ typeChange.invited => IF isDraft THEN PayeeIsInvited ELSE Get(values, "payee") = Null

C1_Witness ==
  /\ Settled /\ typeChange.changed /\ typeChange.invited /\ ~isDraft
  /\ rendered.mounted
  /\ step = STEPS.PAYEE /\ Get(values, "payee") = Null

\* C2: after mounting, once the effects of mounting have run, the step is
\* EXPENSE if the step-one completeness predicate holds for the initial values
\* (with no errors), and PAYEE otherwise.
C2_StepAfterMount ==
  (Settled /\ event = "MountEffects") =>
    step = IF stepOneCompleted(initialValues, EmptyObject) THEN STEPS.EXPENSE ELSE STEPS.PAYEE

\* C3: Back sets the step to PAYEE, sets the payee to null when the payee is
\* an invited payee, and leaves the payee unchanged otherwise.
C3_Back ==
  [][event' = "Back" =>
       /\ step' = STEPS.PAYEE
       /\ Get(values', "payee") = IF PayeeIsInvited THEN Null ELSE Get(values, "payee")]_vars

C3_Witness ==
  /\ event = "Back" /\ step = STEPS.PAYEE
  /\ Get(values, "payee") = Null
  /\ Truthy(GetPath(rendered.values, <<"payee", "isInvite">>))
  /\ isDraft

PayoutMethodValid == isEmpty(validatePayoutMethod(Get(values, "payoutMethod")))

PayloadBuilt == call \in {"prepare", "prepareAgain"} /\ result # TypeError
LocationKeys ==
  IF IsObject(Get(expense, "payeeLocation"))
    THEN (DOMAIN expense.payeeLocation) \cap {"address", "country"}
    ELSE {}

\* C11: the payload of prepareExpenseForSubmit has payeeLocation = null when
\* the type is not INVOICE, and for an INVOICE the payeeLocation of the input
\* restricted to the keys address and country.
C11_PayeeLocation ==
  PayloadBuilt =>
    IF Get(expense, "type") = INVOICE
      THEN /\ IsObject(result.payeeLocation)
           /\ DOMAIN result.payeeLocation = LocationKeys
           /\ \A k \in LocationKeys : result.payeeLocation[k] = expense.payeeLocation[k]
      ELSE result.payeeLocation = Null

C11_Witness ==
  /\ PayloadBuilt
  /\ Get(expense, "type") = INVOICE
  /\ "structured" \in DOMAIN Get(expense, "payeeLocation")
  /\ DOMAIN result.payeeLocation = {"address", "country"}

InlineKeys == {"name", "email", "organization", "newsletterOptIn"}

\* C12 as stated: the payee of the payload is the inline subset (name, email,
\* organization, newsletterOptIn, never an id) when payee.isNewUser or
\* payee.isInvite is set, and otherwise an object with the single key `id`
\* holding the id of the input payee.
C12_IdOrInline ==
  PayloadBuilt =>
    IF InlinePayee(expense)
      THEN /\ DOMAIN result.payee = (DOMAIN expense.payee) \cap InlineKeys
           /\ \A k \in DOMAIN result.payee : result.payee[k] = expense.payee[k]
      ELSE result.payee = [id |-> Get(expense.payee, "id")]

\* C12 amended: the single key is `id` when the id of the input payee is a
\* string, and `legacyId` otherwise.
C12_IdLegacyIdOrInline ==
  PayloadBuilt =>
    IF InlinePayee(expense)
      THEN /\ DOMAIN result.payee = (DOMAIN expense.payee) \cap InlineKeys
           /\ \A k \in DOMAIN result.payee : result.payee[k] = expense.payee[k]
    ELSE IF IsString(Get(expense.payee, "id"))
      THEN result.payee = [id |-> expense.payee.id]
    ELSE result.payee = [legacyId |-> Get(expense.payee, "id")]

C12_Witness ==
  /\ PayloadBuilt
  /\ Get(expense, "payee") = [id |-> Num(7), name |-> Str("Old")]
  /\ result.payee = [legacyId |-> Num(7)]

\* ------------------------------------------------------------------------
\* Submitting the form
\* ------------------------------------------------------------------------

OnSubmitCalled == onSubmitCall # Undefined

\* C13: on every submit, onSubmit is called if and only if validate returns
\* an empty error map for the submitted values; otherwise onSubmit is not
\* called, the errors of the form are that error map, the values are left
\* unchanged and nothing is thrown.
C13_SubmitValidates ==
  [][event' = "Submit" =>
       /\ validate(values) # TypeError
       /\ OnSubmitCalled' <=> isEmpty(validate(values))
       /\ ~isEmpty(validate(values)) =>
            /\ ~OnSubmitCalled'
            /\ errors' = validate(values)
            /\ values' = values]_vars

C13_Witness ==
  /\ event = "Submit"
  /\ ~OnSubmitCalled
  /\ ~isEmpty(validate(values))
  /\ errors = validate(values)

\* C14 as stated: when the validation succeeds, onSubmit is called with the
\* result of prepareExpenseForSubmit applied to the values of the form.
C14_SanitizedRecord ==
  [][(event' = "Submit" /\ OnSubmitCalled') =>
       onSubmitCall' = prepareExpenseForSubmit(values)]_vars

\* C14 amended: when the validation succeeds, onSubmit is called with the
\* values of the form as they are; the form does not apply
\* prepareExpenseForSubmit.
C14_RawValues ==
  [][(event' = "Submit" /\ OnSubmitCalled') => onSubmitCall' = values]_vars

C14_Witness ==
  /\ event = "Submit" /\ OnSubmitCalled
  /\ onSubmitCall = values
  /\ \E i \in DOMAIN values.items.array : Truthy(Get(values.items.array[i], "__isNew"))
  /\ prepareExpenseForSubmit(values) # values

\* C15: validation on change is enabled at mount exactly when
\* validateOnChange is set and the expense is not a draft; a submit whose
\* validation fails enables it; once enabled it stays enabled, and every later
\* change of the values is validated.
C15_ValidationOnChange ==
  [][/\ event = "Mount" => (hasValidate <=> (props.validateOnChange /\ ~isDraft))
     /\ (event' = "Submit" /\ ~isEmpty(validate(values))) => hasValidate'
     /\ hasValidate => hasValidate'
     /\ (hasValidate /\ values' # values) => errors' = validate(values')]_vars

C15_Witness ==
  /\ hasValidate /\ ~props.validateOnChange
  /\ event \notin {"Submit", "RunEffects", "Mount", "MountEffects"}
  /\ errors = validate(values) /\ ~isEmpty(errors)

\* C16: onSubmit is never called with a record without items unless its
\* payee is an invited payee; for a payee that is not invited and an empty
\* list of items the step-two predicate is false.
C16_ItemsOrInvited ==
  /\ OnSubmitCalled => (PayeeIsInvited \/ Length(Get(onSubmitCall, "items")) > 0)
  /\ (~PayeeIsInvited /\ Length(Get(values, "items")) = 0) => ~stepTwoCompleted(values, errors)

C16_Witness ==
  /\ OnSubmitCalled /\ event = "Submit"
  /\ PayeeIsInvited
  /\ Length(Get(onSubmitCall, "items")) = 0

\* ------------------------------------------------------------------------
\* Properties of the recurring-contribution pop-up (SpecPopUp)
\* ------------------------------------------------------------------------

CancelVariables == [order |-> [id |-> popUpProps.contribution.id]]

C18_AllControlsDisabled ==
  [][loadingCancellation =>
       /\ menuState = "cancelMenu" /\ menuState' = "cancelMenu"
       /\ mutations' = mutations
       /\ closeEdits' # closeEdits => popUpEvent' = "CancellationSucceeds"]_vars

\* C18 (amended): while a cancel mutation is pending the menu state does not
\* leave cancelMenu and no other cancel mutation is sent, so at most one is
\* pending; the close icon of the cancel menu still calls onCloseEdit.
C18_ButtonsDisabled ==
  [][/\ inFlight <= 1
     /\ loadingCancellation =>
          /\ menuState = "cancelMenu" /\ menuState' = "cancelMenu"
          /\ mutations' = mutations
          /\ closeEdits < MaxCloseEdits => ENABLED CloseCancelMenu]_vars

\* The pop-up was closed with the close icon while the mutation was pending.
C18_Witness ==
  /\ loadingCancellation
  /\ popUpEvent = "CloseCancelMenu"
  /\ closeEdits = 1

\* ------------------------------------------------------------------------
\* Properties of the persistence of the form (Spec)
\* ------------------------------------------------------------------------

\* C19: when the values are hydrated from formPersister.loadValues(), the
\* installed values have exactly the loaded keys other than `location` and
\* `privateInfo`, each with the loaded value, except payoutMethod which is
\* undefined when its type is BANK_ACCOUNT and the host has no transferwise.
C19_HydratedValues ==
  [][persisterCalls'.setValues =>
       /\ DOMAIN values' = DOMAIN persisted \ {"location", "privateInfo"}
       /\ \A k \in DOMAIN values' :
            values'[k] = IF /\ k = "payoutMethod"
                            /\ GetPath(persisted, <<"payoutMethod", "type">>) = BANK_ACCOUNT
                            /\ ~props.hostTransferwise
                           THEN Undefined
                         ELSE persisted[k]]_vars

\* Stored values with the deprecated fields and a bank account were installed
\* for a host without transferwise.
C19_Witness ==
  /\ persisterCalls.setValues
  /\ {"location", "privateInfo"} \subseteq DOMAIN persisted
  /\ ~props.hostTransferwise
  /\ Get(values, "payoutMethod") = Undefined
  /\ Get(values, "description") = Get(persisted, "description")

\* Stored values with a bank account were installed for a host with transferwise.
C19_KeptPayoutMethod ==
  /\ persisterCalls.setValues
  /\ Get(values, "payoutMethod") = BankAccountMethod

C20_LoadedAgain ==
  /\ event = "RunEffects"
  /\ persisterCalls.setValues

\* ------------------------------------------------------------------------
\* Properties of the payee effects (Spec)
\* ------------------------------------------------------------------------

\* payoutProfiles or loggedInAccount differ from the last render whose effects ran.
ProfilesChanged ==
  /\ rendered.mounted
  /\ \/ rendered.payoutProfiles # payoutProfiles
     \/ rendered.loggedInAccount # loggedInAccount

SelectedPayeeNotInvited == Truthy(Get(values, "payee")) /\ ~PayeeIsInvited

PayeeChangedOnly ==
  /\ rendered.mounted
  /\ Get(rendered.values, "payee") # Get(values, "payee") \/ payeeFresh
  /\ Get(rendered.values, "type") = Get(values, "type")

\* C22: when the effects run after a change of the payee alone, the step
\* becomes EXPENSE if the expense is not a draft and the payee is an invited
\* payee, whatever the payout method; for a draft the step is not changed.
C22_InvitedPayeeShowsExpense ==
  [][(PayeeChangedOnly /\ event' \in {"MountEffects", "RunEffects"}) =>
       /\ (~isDraft /\ PayeeIsInvited) => step' = STEPS.EXPENSE
       /\ isDraft => step' = step]_vars

\* An invited payee was selected in the PAYEE step of an expense that is not
\* a draft; the step is EXPENSE although step one is not completed.
C22_Witness ==
  /\ event = "RunEffects" /\ ~isDraft /\ Settled
  /\ PayeeIsInvited
  /\ step = STEPS.EXPENSE
  /\ ~stepOneCompleted(values, errors)

\* C23: for an expense that is not a draft, once the effects have settled,
\* an invited payee is never selected in the PAYEE step.
C23_NoInvitedPayeeInPayeeStep ==
  (~isDraft /\ Settled /\ step = STEPS.PAYEE) => ~PayeeIsInvited

\* An invited payee of an expense that is not a draft, shown in the EXPENSE step.
C23_Witness ==
  /\ ~isDraft /\ Settled /\ rendered.mounted
  /\ PayeeIsInvited /\ step = STEPS.EXPENSE

\* The menu sections that the pop-up renders
VisibleSections ==
  {m \in {"main", "cancel", "paymentMethod", "updateOrder"} :
     \/ m = "main" /\ mainMenu
     \/ m = "cancel" /\ cancelMenu
     \/ m = "paymentMethod" /\ paymentMethodMenu
     \/ m = "updateOrder" /\ updateOrderMenu}

\* C24: at most one menu section is visible, and exactly one when the status
\* is ACTIVE or ERROR; the menu starts in mainMenu; a step that leaves
\* mainMenu goes to paymentMethodMenu, updateOrderMenu or cancelMenu, and
\* never to paymentMethodMenu when account.type is COLLECTIVE.
C24_MenuSections ==
  /\ [](/\ Cardinality(VisibleSections) <= 1
        /\ popUpProps.status \in {"ACTIVE", "ERROR"} => Cardinality(VisibleSections) = 1
        /\ popUpEvent = "Mount" => menuState = "mainMenu")
  /\ [][(menuState = "mainMenu" /\ menuState' # "mainMenu") =>
          /\ menuState' \in {"paymentMethodMenu", "updateOrderMenu", "cancelMenu"}
          /\ menuState' = "paymentMethodMenu" => popUpProps.account.type # "COLLECTIVE"]_vars

\* The payment-method menu was opened from the main menu.
C24_Witness ==
  /\ popUpEvent = "ClickPaymentMethod"
  /\ VisibleSections = {"paymentMethod"}
  /\ popUpProps.account.type # "COLLECTIVE"

\* ------------------------------------------------------------------------
\* Properties of the create-collective form (SpecCollectiveValidate, SpecCollective)
\* ------------------------------------------------------------------------

ValidatorApplied == collectiveResult # Undefined
HasError(errs, field) == field \in DOMAIN errs
HyphenAtAnEnd(slug) == slug # <<>> /\ (Head(slug) = "-" \/ slug[Len(slug)] = "-")

\* C25: the validator reports a name error unless the name has fewer than 50
\* characters, a slug error unless the slug has fewer than 30 characters and
\* no hyphen at either end (the hyphen message when both rules are broken), a
\* description error unless the description has fewer than 160 characters,
\* and nothing else.
C25_FewerThan ==
  ValidatorApplied =>
    /\ DOMAIN collectiveResult \subseteq CollectiveFields
    /\ HasError(collectiveResult, "name") <=> ~(Len(collectiveInput.name) < 50)
    /\ HasError(collectiveResult, "name") => collectiveResult.name = messages.errorName
    /\ HasError(collectiveResult, "slug") <=>
         ~(Len(collectiveInput.slug) < 30 /\ ~HyphenAtAnEnd(collectiveInput.slug))
    /\ HasError(collectiveResult, "slug") =>
         collectiveResult.slug = IF HyphenAtAnEnd(collectiveInput.slug)
                                   THEN messages.errorSlugHyphen
                                   ELSE messages.errorSlug
    /\ HasError(collectiveResult, "description") <=> ~(Len(collectiveInput.description) < 160)
    /\ HasError(collectiveResult, "description") =>
         collectiveResult.description = messages.errorDescription

\* What the code does: the same with "at most" for "fewer than".
C25_AtMost ==
  ValidatorApplied =>
    /\ DOMAIN collectiveResult \subseteq CollectiveFields
    /\ HasError(collectiveResult, "name") <=> ~(Len(collectiveInput.name) <= 50)
    /\ HasError(collectiveResult, "slug") <=>
         ~(Len(collectiveInput.slug) <= 30 /\ ~HyphenAtAnEnd(collectiveInput.slug))
    /\ HasError(collectiveResult, "slug") =>
         collectiveResult.slug = IF HyphenAtAnEnd(collectiveInput.slug)
                                   THEN messages.errorSlugHyphen
                                   ELSE messages.errorSlug
    /\ HasError(collectiveResult, "description") <=> ~(Len(collectiveInput.description) <= 160)

\* A name of exactly 50 characters is accepted.
C25_Boundary ==
  /\ ValidatorApplied
  /\ Len(collectiveInput.name) = 50
  /\ ~HasError(collectiveResult, "name")

\* C26: a change of the name sets the slug to suggestSlug(name) while the
\* slug field is untouched and leaves it alone once it is touched; a touched
\* slug field stays touched; a slug that the user typed is never changed by a
\* change of the name.
C26_SlugSuggestion ==
  [][/\ collectiveEvent' = "ChangeName" =>
          collectiveValues'.slug = IF collectiveTouched.slug
                                     THEN collectiveValues.slug
                                     ELSE suggestSlug(collectiveValues'.name)
     /\ collectiveTouched.slug => collectiveTouched'.slug
     /\ (slugTyped /\ collectiveValues'.name # collectiveValues.name) =>
          collectiveValues'.slug = collectiveValues.slug]_vars

\* The name was changed after the user typed a slug, and the slug is still
\* the typed one, not the suggestion for the new name.
C26_Witness ==
  /\ collectiveEvent = "ChangeName"
  /\ slugTyped
  /\ collectiveValues.slug \in TypedSlugs
  /\ collectiveValues.slug # suggestSlug(collectiveValues.name)

\* The slug was suggested from the name while the slug field was untouched.
C26_Suggested ==
  /\ collectiveEvent = "ChangeName"
  /\ ~collectiveTouched.slug
  /\ collectiveValues.name = <<"M", "a", " ", "R", "a">>
  /\ collectiveValues.slug = <<"m", "a", "-", "r", "a">>

====
